---- MODULE Spec2Model ----
(***************************************************************************)
(* Model of the code-emission core of solang (src/emit/instructions.rs):   *)
(* the work-list block translator with lazily materialized IR blocks and   *)
(* phi wiring, the PushMemory / PopMemory lowering of the vector heap      *)
(* object and its size arithmetic, internal calls, Set, the selector check *)
(* of AbiDecode with WriteBuffer, and ExternalCall.                        *)
(***************************************************************************)
EXTENDS Integers, Sequences, FiniteSets, TLC

\* ------------------------------------------------------------------ bounds
\* number of basic blocks of the lowered CFG
NumBlocks == 3
\* cap on the number of work items the driver takes from the work list
MaxTranslations == 6

\* initial length of the vector PushMemory / PopMemory work on
MaxLen == 2
\* number of PushMemory / PopMemory instructions executed on it
MaxOps == 3
\* internal calls: at most this many arguments and returns
MaxArgs == 2
MaxReturns == 2
\* AbiDecode: the buffer holds a selector and at most this many more bytes
MaxPayload == 2
\* ExternalCall: payloads of at most this many bytes
MaxCallData == 12
\* Set: number of Set instructions lowered in a row, and the largest literal
MaxSets == 3
MaxLiteral == 1
\* realloc sizes: number of PushMemory / PopMemory size computations in a row
MaxSizeOps == 2

VARIABLES
    cfg,        \* the ControlFlowGraph being lowered: block_no + 1 -> Seq(Instr)
    blocks,     \* HashMap<usize, BasicBlock>: materialized CFG blocks
    work,       \* VecDeque<Work>: the work list
    w,          \* the Work item the driver is translating
    pc,         \* index of the next instruction of w's block
    builder,    \* bin.builder's insertion block (an IR block id)
    ir,         \* the IR blocks of the function, by id, in creation order
    trace,      \* builder / blocks / work operations of the last handler
    enqueued,   \* history: block numbers in the order they were enqueued
    translated, \* history: block numbers in the order they were translated
    edges,      \* history: emitted branch edges with the env at the branch
    target,     \* ns.target
    elem_ty,    \* ty.array_elem() of the vector: element size, fixed reference
    heap,       \* the allocations of __realloc, by address
    mvars,      \* w.vars of the array variable and the result variable
    lastop,     \* history: the last PushMemory / PopMemory executed
    nops        \* number of PushMemory / PopMemory executed

VARIABLES
    call,       \* the Instr::Call being lowered
    cenv,       \* w.vars of the call site: result variable -> current value
    cir,        \* the argument list and the blocks the call handler emitted
    cphase,     \* "idle", "emit", "emitted", "block_done", "ran"
    crun        \* the execution of the emitted code for one callee outcome

cfgvars == <<cfg, blocks, work, w, pc, builder, ir, trace, enqueued, translated, edges>>
memvars == <<target, elem_ty, heap, mvars, lastop, nops>>
VARIABLES
    sel,        \* the AbiDecode at hand: target, selector, data_len
    buf,        \* the bytes of the buffer data points to
    wrote,      \* the WriteBuffer done on the buffer, if any
    sphase,     \* "idle", "start", "written", "done"
    sout        \* where the emitted selector check went, and what it passed on

VARIABLES
    xcall,      \* the Instr::ExternalCall being lowered: payload, success
    xseen,      \* what target.external_call was handed, and the success binding
    xphase      \* "idle", "emit", "called", "returned"

VARIABLES
    setins,     \* the Instr::Set lowered last
    setenv,     \* w.vars of the block the Set instructions are in
    nsets       \* number of Set instructions lowered

VARIABLES
    sz,         \* the vector a size is computed for: target, len, elem_size
    szout,      \* the last size computation: new_len and the __realloc size
    nsz         \* number of size computations

callvars == <<call, cenv, cir, cphase, crun>>
selvars == <<sel, buf, wrote, sphase, sout>>
extvars == <<xcall, xseen, xphase>>
setvars == <<setins, setenv, nsets>>
sizevars == <<sz, szout, nsz>>
morevars == <<setvars, sizevars>>
othervars == <<callvars, selvars, extvars, morevars>>
vars == <<cfgvars, memvars, othervars>>

\* ------------------------------------------------------------ input domain
Blocks == 0 .. NumBlocks - 1

\* cfg.vars: the CFG variables in the environment of every work item
Vars == {"c", "v"}

\* IR values bound to variables
Param(x) == [kind |-> "param", n |-> 0, var |-> x]
Const(k) == [kind |-> "const", n |-> k, var |-> "v"]
PhiValue(bb, x) == [kind |-> "phi", n |-> bb, var |-> x]
\* the value target.abi_decode returns for a type, decoded in IR block bb
Decoded(bb, ty) == [kind |-> "decoded", n |-> bb, var |-> ty]
\* values bound by the instructions that split their block: the result a Call
\* loads in its success block, the element and the vector of a PopMemory
Loaded32(bb, x) == [kind |-> "loaded", n |-> bb, var |-> x]
Popped(bb, x) == [kind |-> "popped", n |-> bb, var |-> x]

\* codegen::cfg::Instr, the variants the block translator dispatches on.
\* dest lists the block numbers the instruction names, in source order.
Return == [op |-> "Return", dest |-> <<>>]
Set(k) == [op |-> "Set", dest |-> <<k>>]
Branch(b) == [op |-> "Branch", dest |-> <<b>>]
BranchCond(t, f) == [op |-> "BranchCond", dest |-> <<t, f>>]
\* Switch: dest = the case targets in listed order, then the default
Switch(cases, default) == [op |-> "Switch", dest |-> Append(cases, default)]
\* AbiDecode with a selector names its exception block
AbiDecode(exception) == [op |-> "AbiDecode", dest |-> <<exception>>,
                         res |-> <<"v">>, tys |-> <<"uint32">>]
\* AbiDecode { selector: None, exception_block: None, res, tys }
AbiDecodeNoSelector(res, tys) == [op |-> "AbiDecode", dest |-> <<>>,
                                  res |-> res, tys |-> tys]
\* Call { res: [v], call: Static } and PopMemory { res: v, array: c }
Call == [op |-> "Call", dest |-> <<>>]
PopMemory == [op |-> "PopMemory", dest |-> <<>>]

\* blocks a block's instructions may name: itself, the next block and the
\* last block (which may branch back); the entry block is never a target
Targets(b) == {b, b + 1, NumBlocks - 1} \cap (1 .. NumBlocks - 1)

Terminators(b) ==
    {Return}
    \cup {Branch(t) : t \in Targets(b)}
    \cup {BranchCond(t, f) : t \in Targets(b), f \in Targets(b)}
    \cup {Switch(<<p[1]>>, p[2]) :
              p \in {q \in Targets(b) \X Targets(b) : q[1] # q[2]}}
    \cup {Switch(<<p[1], p[2]>>, d) :
              p \in {q \in Targets(b) \X Targets(b) : q[1] # q[2]},
              d \in Targets(b)}

SimpleTerminators(b) == {Return} \cup {Branch(t) : t \in Targets(b)}

Prefixes(b) == {Set(b + 1)} \cup {AbiDecode(e) : e \in Targets(b)}

\* instruction lists of block b
Bodies(b) ==
    IF b = NumBlocks - 1
    THEN {<<Return>>, <<Branch(b - 1)>>}
    ELSE {<<t>> : t \in Terminators(b)}
         \cup {<<p, t>> : p \in Prefixes(b), t \in SimpleTerminators(b)}

RECURSIVE CFGs(_)
CFGs(n) == IF n = 0 THEN {<<>>}
           ELSE {Append(g, body) : g \in CFGs(n - 1), body \in Bodies(n - 1)}

\* CFGs whose first SplitBlocks blocks start with an instruction that splits
\* its IR block or decodes, followed by a terminator
SplitBlocks == 2

\* the result variables and types of an AbiDecode without selector
DecodeLists == {[res |-> <<"c", "v">>, tys |-> <<"int16", "bool">>],
                [res |-> <<"v", "c">>, tys |-> <<"int16", "bool">>],
                [res |-> <<"v">>, tys |-> <<"bool">>]}

SplitPrefixes(b) ==
    {Call, PopMemory, Set(b + 1), AbiDecode(NumBlocks - 1)}
    \cup {AbiDecodeNoSelector(d.res, d.tys) : d \in DecodeLists}

SplitTerminators(b) ==
    {Return, Switch(<<b + 1>>, NumBlocks - 1)}
    \cup {Branch(t) : t \in Targets(b)}
    \cup {BranchCond(p[1], p[2]) :
              p \in {q \in Targets(b) \X Targets(b) : q[1] # q[2]}}

SplitBodies(b) ==
    IF b = NumBlocks - 1
    THEN {<<Return>>, <<Branch(b - 1)>>}
    ELSE IF b < SplitBlocks
    THEN {<<p, t>> : p \in SplitPrefixes(b), t \in SplitTerminators(b)}
    ELSE {<<t>> : t \in SimpleTerminators(b)}

RECURSIVE SplitCFGs(_)
SplitCFGs(n) == IF n = 0 THEN {<<>>}
                ELSE {Append(g, body) : g \in SplitCFGs(n - 1),
                                        body \in SplitBodies(n - 1)}

\* cfg.blocks[b].phis: the variables that get a phi when b is materialized
CfgPhis(b) == IF b = 0 THEN {} ELSE Vars

\* ------------------------------------------------------------- IR builder
\* bin.context.append_basic_block(function, name); blk is the CFG block the
\* driver is translating (or materializing) when the block is created
append_basic_block(st, name, blk) ==
    [st EXCEPT !.ir = Append(@, [name |-> name, blk |-> blk,
                                 phis |-> <<>>, code |-> <<>>]),
               !.trace = Append(@, [ev |-> "append", n |-> Len(st.ir) + 1,
                                    at |-> st.builder, pred |-> 0])]

\* bin.builder.position_at_end(bb)
position_at_end(st, bb) ==
    [st EXCEPT !.builder = bb,
               !.trace = Append(@, [ev |-> "position", n |-> bb,
                                    at |-> st.builder, pred |-> 0])]

\* bin.builder.build_*: the instruction goes to the end of the insertion block
build(st, op, targets, src) ==
    [st EXCEPT !.ir[st.builder].code =
                   Append(@, [op |-> op, targets |-> targets, src |-> src]),
               !.trace = Append(@, [ev |-> op, n |-> 0,
                                    at |-> st.builder, pred |-> 0])]

\* a branch instruction: build it and record its edges with the env
build_branch(st, op, targets, src, env) ==
    LET s1 == build(st, op, targets, src)
        RECURSIVE Add(_, _)
        Add(es, i) == IF i > Len(targets) THEN es
                      ELSE Add(Append(es, [from |-> st.builder, to |-> targets[i],
                                           vars |-> env]), i + 1)
    IN [s1 EXCEPT !.edges = Add(@, 1)]

\* emit::expression::expression: straight-line code at the insertion point
expression(st, src) == build(st, "expr", <<>>, src)

\* emit::cfg::create_block: a fresh IR block with one phi per cfg phi
\* variable; building the phis moves the insertion point into the new block
create_block(st, block_no) ==
    LET s1 == append_basic_block(st, "cfg", block_no)
        bb == Len(s1.ir)
        s2 == position_at_end(s1, bb)
    IN [s2 EXCEPT !.ir[bb].phis = [x \in CfgPhis(block_no) |-> <<>>]]

BasicBlock(bb, block_no) == [bb |-> bb, phis |-> CfgPhis(block_no)]

\* mutant of push_back: the work item goes to the front of the work list
push_front(st, block_no, env) ==
    [st EXCEPT !.work = <<[block_no |-> block_no, vars |-> env]>> \o @,
               !.enqueued = Append(@, block_no),
               !.trace = Append(@, [ev |-> "enqueue", n |-> block_no,
                                    at |-> st.builder, pred |-> 0])]

\* work.push_back(Work { block_no, vars })
push_back(st, block_no, env) ==
    [st EXCEPT !.work = Append(@, [block_no |-> block_no, vars |-> env]),
               !.enqueued = Append(@, block_no),
               !.trace = Append(@, [ev |-> "enqueue", n |-> block_no,
                                    at |-> st.builder, pred |-> 0])]

\* mutant of add_incoming: the predecessor registered is the block the
\* insertion point is in, not pos
add_incoming_at_insert_block(st, bb, env, pos) ==
    [st EXCEPT !.ir[bb].phis = [x \in DOMAIN @ |->
                                   Append(@[x], [val |-> env[x], pred |-> st.builder])],
               !.trace = Append(@, [ev |-> "incoming", n |-> bb,
                                    at |-> st.builder, pred |-> st.builder])]

\* phi.add_incoming(&[(&w.vars[v].value, pos)]) for every phi of the block
add_incoming(st, bb, env, pos) ==
    [st EXCEPT !.ir[bb].phis = [x \in DOMAIN @ |->
                                   Append(@[x], [val |-> env[x], pred |-> pos])],
               !.trace = Append(@, [ev |-> "incoming", n |-> bb,
                                    at |-> st.builder, pred |-> pos])]

\* add_or_retrieve_block: materialize block_no on first reference, then wire
\* the phis of the block for the edge from pos
add_or_retrieve_block(st, block_no, pos, env) ==
    LET s1 == IF block_no \notin DOMAIN st.blocks
              THEN LET c == create_block(st, block_no)
                       i == [c EXCEPT !.blocks =
                                @ @@ (block_no :> BasicBlock(Len(c.ir), block_no))]
                   IN push_back(i, block_no, env)
              ELSE st
        bb == s1.blocks[block_no].bb
    IN add_incoming(s1, bb, env, pos)

\* --------------------------------------------------------------- the state
NoWork == [block_no |-> -1, vars |-> [x \in Vars |-> Param(x)]]

Body(b) == cfg[b + 1]
Active == w.block_no >= 0 /\ pc <= Len(Body(w.block_no))
CurInstr == Body(w.block_no)[pc]

\* the mutable state a handler works on
Cur == [blocks |-> blocks, work |-> work, builder |-> builder, ir |-> ir,
        trace |-> <<[ev |-> "begin", n |-> w.block_no, at |-> builder, pred |-> 0]>>,
        enqueued |-> enqueued, edges |-> edges]

Commit(st) ==
    /\ blocks' = st.blocks
    /\ work' = st.work
    /\ builder' = st.builder
    /\ ir' = st.ir
    /\ trace' = st.trace
    /\ enqueued' = st.enqueued
    /\ edges' = st.edges

\* size_of struct.vector: the header, len : u32 and cap : u32
VecHeaderSize == 8

\* ------------------------------------------------------- internal calls
\* the three InternalCallTy variants
CallKinds == {"Static", "Builtin", "Dynamic"}
Targets2 == {"Substrate", "Solana"}
\* the codes a lowered function returns
ReturnCodes == {"Success", "FunctionSelectorInvalid", "AbiEncodingInvalid"}

\* the classes of return types the binding test tells apart
ValueType == [is_reference_type |-> FALSE, external_function |-> FALSE]
ReferenceType == [is_reference_type |-> TRUE, external_function |-> FALSE]
ExternalFunctionType == [is_reference_type |-> FALSE, external_function |-> TRUE]
ReturnTypes == {ValueType, ReferenceType, ExternalFunctionType}

RECURSIVE SeqsUpTo(_, _)
SeqsUpTo(S, n) ==
    IF n = 0 THEN {<<>>}
    ELSE LET shorter == SeqsUpTo(S, n - 1)
         IN shorter \cup {Append(q, x) : q \in {r \in shorter : Len(r) = n - 1},
                                         x \in S}

\* the current value of a result variable: a pointer, a plain value, or the
\* value loaded from out-pointer i after the call
DestKinds == {"ptr", "val"}

\* where a call site may be: in the function's entry block, or in a block of
\* a CFG loop
SiteBlocks == {"entry", "loop"}
Dest(kind, v) == [kind |-> kind, i |-> v]
Loaded(i) == [kind |-> "loaded", i |-> i]

\* Instr::Call { res, call, args }: nargs arguments, a callee with the
\* returns r; res is empty or names one variable per return; dest tells, for
\* each variable, whether its value at the call site is a pointer; later is
\* the number of instructions that follow the call in its block; site is the
\* IR block the insertion point is in when the call is lowered
Calls(r) ==
    {[kind |-> k, target |-> t, nargs |-> n, returns |-> r, res |-> v,
      dest |-> d, later |-> l, site |-> b] :
        k \in CallKinds, t \in Targets2, n \in 0 .. MaxArgs,
        v \in {<<>>, [i \in 1 .. Len(r) |-> i]},
        d \in [1 .. MaxReturns -> DestKinds], l \in 0 .. 1, b \in SiteBlocks}

\* an emitted IR instruction of the call machine
CallOp(op, i) == [op |-> op, i |-> i, t |-> "", f |-> ""]

\* an entry of the argument list handed to build_call
Parm(kind, i, at) == [kind |-> kind, i |-> i, at |-> at]

\* bin.parameters: the ambient accounts pointer, present on Solana only
bin_parameters(t) == t = "Solana"

\* args.iter().map(expression)
lower_args(c) == [i \in 1 .. c.nargs |-> Parm("arg", i, "here")]

\* if !res.is_empty(): one out-pointer alloca per return of the callee, in
\* the entry block (bin.build_alloca) or at the insertion point
out_pointers(c, at) ==
    IF c.res = <<>> THEN <<>>
    ELSE [i \in 1 .. Len(c.returns) |-> Parm("alloca", i, at)]

\* if let Some(parameters) = bin.parameters { parms.push(parameters) }
push_parameters(c) ==
    IF bin_parameters(c.target) THEN <<Parm("accounts", 0, "here")>> ELSE <<>>

\* mutant of build_conditional_branch: the two targets are exchanged
build_conditional_branch_swapped(then_block, else_block) ==
    [op |-> "condbr", i |-> 0, t |-> else_block, f |-> then_block]

\* bin.builder.build_conditional_branch(cond, then_block, else_block)
build_conditional_branch(then_block, else_block) ==
    [op |-> "condbr", i |-> 0, t |-> then_block, f |-> else_block]

\* the Static and Builtin test: dest.is_pointer_value() && !(v.ty
\* .is_reference_type(ns) || matches!(v.ty, Type::ExternalFunction { .. }))
stores_through_static(dest, ty) ==
    dest.kind = "ptr" /\ ~(ty.is_reference_type \/ ty.external_function)

\* the Dynamic test: dest.is_pointer_value() && !ty.is_reference_type(ns)
stores_through_dynamic(dest, ty) ==
    dest.kind = "ptr" /\ ~ty.is_reference_type

\* the loop over the returns in the success block: load out-pointer i, then
\* store the value through the destination or rebind the variable to it
RECURSIVE bind_results(_, _, _, _)
bind_results(c, i, acc, dynamic) ==
    IF c.res = <<>> \/ i > Len(c.returns) THEN acc
    ELSE LET dest == acc.env[c.res[i]]
             store == IF dynamic THEN stores_through_dynamic(dest, c.returns[i])
                      ELSE stores_through_static(dest, c.returns[i])
             code == Append(acc.code, CallOp("load", i))
         IN bind_results(c, i + 1,
                IF store
                THEN [acc EXCEPT !.code = Append(code, CallOp("store", i))]
                ELSE [acc EXCEPT !.code = code, !.env[c.res[i]] = Loaded(i)],
                dynamic)

\* the code all three variants emit after the argument list: the call, the
\* comparison with Success, the success and bail blocks, the return of the
\* callee's code from the bail block and the result binding in the success
\* block, where the insertion point stays
lower_call_tail(c, env, parms, callee, dynamic) ==
    LET b == bind_results(c, 1, [code |-> <<>>, env |-> env], dynamic)
    IN [parms |-> parms,
        blocks |-> [site |-> callee \o <<CallOp("call", Len(parms)),
                                         CallOp("icmp_eq_success", 0),
                                         build_conditional_branch("success", "bail")>>,
                    bail |-> <<CallOp("ret_code", 0)>>,
                    success |-> b.code],
        insert |-> "success",
        env |-> b.env]

\* Instr::Call { call: InternalCallTy::Static { cfg_no } }
lower_call_static(c, env) ==
    lower_call_tail(c, env,
        lower_args(c)
            \o out_pointers(c, IF c.target = "Solana" THEN "entry" ELSE "here")
            \o push_parameters(c),
        <<>>, FALSE)

\* Instr::Call { call: InternalCallTy::Builtin { ast_func_no } }: the
\* argument list goes to target.builtin_function as it is
lower_call_builtin(c, env) ==
    lower_call_tail(c, env,
        lower_args(c)
            \o out_pointers(c, IF c.target = "Solana" THEN "entry" ELSE "here"),
        <<>>, FALSE)

\* Instr::Call { call: InternalCallTy::Dynamic(call_expr) }: the callee
\* expression is lowered after the argument list
lower_call_dynamic(c, env) ==
    lower_call_tail(c, env,
        lower_args(c) \o out_pointers(c, "entry") \o push_parameters(c),
        <<CallOp("callee_expr", 0)>>, TRUE)

\* execution of the emitted code when the callee returns rc: the site block,
\* then the block the conditional branch selects; a block that ends in a
\* return ends the function with that code
run_call(emitted, rc) ==
    LET site == emitted.blocks.site
        br == site[Len(site)]
        next == IF rc = "Success" THEN br.t ELSE br.f
        path == site \o emitted.blocks[next]
    IN [path |-> path,
        rc |-> rc,
        result |-> IF path[Len(path)].op = "ret_code" THEN rc ELSE "none"]

NoCall == [kind |-> "none", target |-> "Substrate", nargs |-> 0,
           returns |-> <<>>, res |-> <<>>,
           dest |-> [i \in 1 .. MaxReturns |-> "val"], later |-> 0,
           site |-> "entry"]
NoCallIr == [parms |-> <<>>,
             blocks |-> [site |-> <<>>, bail |-> <<>>, success |-> <<>>],
             insert |-> "site", env |-> <<>>]
NoRun == [path |-> <<>>, rc |-> "none", result |-> "none"]

\* no call: the state of the call machine while the other machines run
CallIdle ==
    /\ call = NoCall /\ cenv = <<>> /\ cir = NoCallIr
    /\ cphase = "idle" /\ crun = NoRun

\* ------------------------------------------------- selectors and buffers
\* byte k of a 32-bit word, k = 0 the least significant
Digit(x, k) == (x \div (256 ^ k)) % 256

\* the 32-bit word whose bytes, least significant first, are b
word(b) == b[1] + 256 * b[2] + 65536 * b[3] + 16777216 * b[4]

\* byte strings of selectors: two palindromes and two mirrored pairs, every
\* byte below 128 (the words stay below 2^31)
SelBytes == {<<1, 1, 1, 1>>, <<1, 41, 41, 1>>, <<41, 1, 1, 1>>, <<1, 1, 1, 41>>,
             <<1, 41, 1, 41>>, <<41, 1, 41, 1>>}
Words == {word(b) : b \in SelBytes}

\* mutant of UGT: the signed comparison
SGT(a, b) == a > b

\* an i32 is its two's complement bit pattern: a negative number stands for
\* a pattern with the top bit set. IntPredicate::UGT compares the patterns
\* as unsigned numbers
UGT(a, b) == IF (a < 0) = (b < 0) THEN a > b ELSE a < 0

\* build_load of an i32 through a pointer to the bytes at off: the targets
\* are little-endian
load_i32(mem, off) ==
    mem[off + 1] + 256 * mem[off + 2] + 65536 * mem[off + 3]
        + 16777216 * mem[off + 4]

\* build_store of an n-byte integer at off
store_int(mem, off, x, n) ==
    [i \in 1 .. Len(mem) |->
        IF i > off /\ i <= off + n THEN Digit(x, i - off - 1) ELSE mem[i]]

\* __leNtobeN(from, to, n): the n bytes at from go to to in reverse order
leNtobeN(mem, off, from, n) ==
    [i \in 1 .. Len(mem) |->
        IF i > off /\ i <= off + n THEN from[n - (i - off) + 1] ELSE mem[i]]

\* u32::to_be() on the little-endian build host: the four bytes reversed
to_be(x) ==
    (x % 256) * 16777216 + ((x \div 256) % 256) * 65536
        + ((x \div 65536) % 256) * 256 + ((x \div 16777216) % 256)

\* mutant of selector_constant: never swapped
selector_constant_host_order(t, selector) == selector

\* if ns.target.is_substrate() { *selector } else { selector.to_be() }
selector_constant(t, selector) ==
    IF t = "Substrate" THEN selector ELSE to_be(selector)

\* the types WriteBuffer tells apart: Type::Bytes(n) with n > 1, and the rest
WriteTypes == {[name |-> "Bytes", n |-> 4], [name |-> "Uint", n |-> 4]}

\* Instr::WriteBuffer { buf, offset, value }
lower_write_buffer(mem, offset, value, ty) ==
    LET is_bytes == IF ty.name = "Bytes" THEN ty.n ELSE 0
    IN IF is_bytes > 1
       THEN LET value_ptr == store_int([i \in 1 .. is_bytes |-> 0], 0, value, is_bytes)
            IN leNtobeN(mem, offset, value_ptr, is_bytes)
       ELSE store_int(mem, offset, value, ty.n)

NoOutcome == [path |-> <<>>, data |-> 0, data_len |-> 0, constant |-> 0]

\* Instr::AbiDecode with a selector, the emitted check executed on the bytes
\* mem with the given data_len: has_selector, ok1, correct_selector, ok2, and
\* the data pointer and length handed to target.abi_decode
run_abi_decode(mem, data_len, t, selector) ==
    LET has_selector == UGT(data_len, 4)
        constant == selector_constant(t, selector)
    IN IF ~has_selector
       THEN [NoOutcome EXCEPT !.path = <<"has_selector", "exception">>]
       ELSE IF load_i32(mem, 0) # constant
       THEN [NoOutcome EXCEPT !.path = <<"has_selector", "ok1", "correct_selector",
                                         "exception">>,
                              !.constant = constant]
       ELSE [path |-> <<"has_selector", "ok1", "correct_selector", "ok2",
                        "abi_decode">>,
             data |-> 4,
             data_len |-> data_len - 4,
             constant |-> constant]

NoSel == [target |-> "Substrate", selector |-> 0, data_len |-> 0]
NoWrite == [ty |-> [name |-> "none", n |-> 0], value |-> 0, offset |-> 0]

\* no AbiDecode: the state of the selector machine while the others run
SelIdle ==
    /\ sel = NoSel /\ buf = <<>> /\ wrote = NoWrite
    /\ sphase = "idle" /\ sout = NoOutcome

\* --------------------------------------------------------- external calls
\* the payload expression's value: for Type::DynamicBytes a pointer to a
\* vector of len bytes with room for cap, for any other type a pointer to a
\* buffer whose type has the static size size_of. Pointers are byte offsets
\* from the start of the object; first is where the payload bytes start
DynamicPayload(len, cap) ==
    [ty |-> "DynamicBytes", ptr |-> 0, first |-> VecHeaderSize,
     len |-> len, cap |-> cap, size_of |-> VecHeaderSize]
StaticPayload(n) ==
    [ty |-> "Bytes", ptr |-> 0, first |-> 0,
     len |-> n, cap |-> n, size_of |-> n]

Payloads ==
    {DynamicPayload(pl[1], pl[2]) :
        pl \in {q \in (0 .. MaxCallData) \X (0 .. MaxCallData + 1) :
                   q[1] <= q[2] /\ q[2] <= q[1] + 1}}
    \cup {StaticPayload(n) : n \in 1 .. MaxCallData}

\* bin.vector_bytes(v): pointer to the data field, past the header
vector_bytes(v) == v.ptr + VecHeaderSize

\* mutant of is_dynamic_bytes: no payload is taken for a vector
is_dynamic_bytes_never(ty) == FALSE

\* payload_ty == Type::DynamicBytes
is_dynamic_bytes(ty) == ty = "DynamicBytes"

\* let (payload_ptr, payload_len) = ..
payload_ptr_len(payload) ==
    IF is_dynamic_bytes(payload.ty)
    THEN [ptr |-> vector_bytes(payload), len |-> payload.len]
    ELSE [ptr |-> payload.ptr, len |-> payload.size_of]

\* Instr::ExternalCall: what the handler passes to target.external_call
lower_external_call(x) ==
    LET pl == payload_ptr_len(x.payload)
    IN [payload_ptr |-> pl.ptr, payload_len |-> pl.len,
        success_slot |-> x.success, success |-> "unbound",
        outcome |-> "pending"]

\* target.external_call: the runtime performs the call and binds the success
\* variable, if there is one, to the outcome
external_call(seen, outcome) ==
    [seen EXCEPT !.outcome = outcome,
                 !.success = IF seen.success_slot = "none" THEN @ ELSE outcome]

NoExternalCall == [payload |-> StaticPayload(1), success |-> "none"]
NothingSeen == [payload_ptr |-> 0, payload_len |-> 0,
                success_slot |-> "none", success |-> "unbound",
                outcome |-> "pending"]

\* no external call: the state of the external call machine otherwise
ExtIdle == xcall = NoExternalCall /\ xseen = NothingSeen /\ xphase = "idle"

\* ------------------------------------------------------------ Instr::Set
\* the variables of the block
SetVars == {"a", "b"}

\* the types Type::default tells apart: with a default expression (integers,
\* bool, ..) and without one (references)
SetTypes == {[name |-> "Uint", has_default |-> TRUE],
             [name |-> "Bool", has_default |-> TRUE],
             [name |-> "Ref", has_default |-> FALSE]}

\* codegen::Expression, the variants Instr::Set tells apart, and two more
Undefined(ty) == [e |-> "Undefined", ty |-> ty, n |-> 0, x |-> "a"]
NumberLiteral(n) == [e |-> "NumberLiteral", ty |-> [name |-> "Uint", has_default |-> TRUE],
                     n |-> n, x |-> "a"]
BoolLiteral(n) == [e |-> "BoolLiteral", ty |-> [name |-> "Bool", has_default |-> TRUE],
                   n |-> n, x |-> "a"]
Variable(x) == [e |-> "Variable", ty |-> [name |-> "Uint", has_default |-> TRUE],
                n |-> 0, x |-> x]
\* the right-hand sides of the Set instructions lowered
SetExprs == {Undefined(ty) : ty \in SetTypes}
            \cup {NumberLiteral(n) : n \in 0 .. MaxLiteral}
            \cup {Variable(x) : x \in SetVars}

\* IR values of the Set machine
IntValue(ty, n) == [kind |-> "int", ty |-> ty, n |-> n, x |-> ""]
ParamValue(x) == [kind |-> "param", ty |-> "Uint", n |-> 0, x |-> x]
UndefValue(ty) == [kind |-> "undef", ty |-> ty, n |-> 0, x |-> ""]

\* Type::default(ns): the default expression of the type, if it has one
type_default(ty) ==
    IF ~ty.has_default THEN <<>>
    ELSE IF ty.name = "Bool" THEN <<BoolLiteral(0)>>
    ELSE <<NumberLiteral(0)>>

\* emit::expression::expression on the expressions of the Set machine
lower_expression(e, env) ==
    CASE e.e = "NumberLiteral" -> IntValue("Uint", e.n)
      [] e.e = "BoolLiteral" -> IntValue("Bool", e.n)
      [] e.e = "Variable" -> env[e.x]
      [] e.e = "Undefined" -> UndefValue(e.ty.name)

\* Instr::Set { res, expr }
lower_set(env, res, expr) ==
    IF expr.e = "Undefined"
    THEN IF type_default(expr.ty) # <<>>
         THEN [env EXCEPT ![res] = lower_expression(type_default(expr.ty)[1], env)]
         ELSE env
    ELSE [env EXCEPT ![res] = lower_expression(expr, env)]

NoSet == [res |-> "a", expr |-> NumberLiteral(0)]

\* no Set: the state of the Set machine while the other machines run
SetIdle == setins = NoSet /\ setenv = <<>> /\ nsets = 0

\* ------------------------------------------- realloc sizes, full width
\* an iN value is the sequence of its N / 8 bytes, least significant first
I32 == 4
I64 == 8

\* iN.const_int(n): the low bytes of n
RECURSIVE const_int(_, _)
const_int(n, width) ==
    IF width = 0 THEN <<>> ELSE <<n % 256>> \o const_int(n \div 256, width - 1)

RECURSIVE add_carry(_, _, _, _)
add_carry(a, b, k, carry) ==
    IF k > Len(a) THEN <<>>
    ELSE LET t == a[k] + b[k] + carry
         IN <<t % 256>> \o add_carry(a, b, k + 1, t \div 256)

\* build_int_add: the sum modulo 2^N, the carry out of the top byte is lost
build_int_add(a, b) == add_carry(a, b, 1, 0)

\* build_int_sub: a + ~b + 1 modulo 2^N
build_int_sub(a, b) == add_carry(a, [k \in 1 .. Len(b) |-> 255 - b[k]], 1, 1)

\* b times the byte d, shifted left by n bytes, modulo 2^N
RECURSIVE scale(_, _, _, _)
scale(b, d, k, carry) ==
    IF k > Len(b) THEN <<>>
    ELSE LET t == b[k] * d + carry
         IN <<t % 256>> \o scale(b, d, k + 1, t \div 256)
shift(b, n) == [k \in 1 .. Len(b) |-> IF k <= n THEN 0 ELSE b[k - n]]

RECURSIVE mul_from(_, _, _)
mul_from(a, b, i) ==
    IF i > Len(a) THEN [k \in 1 .. Len(a) |-> 0]
    ELSE build_int_add(shift(scale(b, a[i], 1, 0), i - 1), mul_from(a, b, i + 1))

\* build_int_mul: the product modulo 2^N
build_int_mul(a, b) == mul_from(a, b, 1)

\* build_int_z_extend(v, iN)
build_int_z_extend(v, width) ==
    [k \in 1 .. width |-> IF k <= Len(v) THEN v[k] ELSE 0]

\* size_of struct.vector, const_cast to i32
vec_size == const_int(VecHeaderSize, I32)

\* lengths of the vector: small ones and the largest i32 patterns
Lens == {const_int(0, I32), const_int(1, I32), const_int(2, I32),
         const_int(255, I32), <<255, 255, 0, 0>>, <<255, 255, 255, 63>>,
         <<255, 255, 255, 127>>, <<254, 255, 255, 255>>,
         <<255, 255, 255, 255>>}
\* sizes of the element type
ElemSizes == {const_int(1, I32), const_int(4, I32), const_int(32, I32)}

\* Instr::PushMemory, "Calculate total size for reallocation"
push_realloc_size(t, len, elem_size) ==
    LET new_len == build_int_add(len, const_int(1, I32))
        size0 == build_int_mul(elem_size, new_len)
        size == build_int_add(size0, vec_size)
        realloc_size == IF t = "Solana" THEN build_int_z_extend(size, I64) ELSE size
    IN [op |-> "push", len |-> len, new_len |-> new_len,
        realloc_size |-> realloc_size]

\* Instr::PopMemory, the pop block: "Calculate total size for reallocation"
pop_realloc_size(t, len, elem_size) ==
    LET new_len == build_int_sub(len, const_int(1, I32))
        size0 == build_int_mul(elem_size, new_len)
        size == build_int_add(size0, vec_size)
        realloc_size == IF t = "Solana" THEN build_int_z_extend(size, I64) ELSE size
    IN [op |-> "pop", len |-> len, new_len |-> new_len,
        realloc_size |-> realloc_size]

\* Instr::PopMemory, the error block: nothing is computed
pop_error_size(len) ==
    [op |-> "pop_empty", len |-> len, new_len |-> <<>>, realloc_size |-> <<>>]

NoSize == [op |-> "none", len |-> <<>>, new_len |-> <<>>, realloc_size |-> <<>>]
NoVector == [target |-> "Substrate", len |-> <<>>, elem_size |-> <<>>]

\* no size computation: the state of the size machine otherwise
SizeIdle == sz = NoVector /\ szout = NoSize /\ nsz = 0

MoreIdle == SetIdle /\ SizeIdle

\* the other machines are idle
OtherIdle == CallIdle /\ SelIdle /\ ExtIdle /\ MoreIdle

\* ------------------------------------------- vectors in contract memory
\* addresses __realloc hands out; one vector is live at a time
Addrs == {1, 2}
\* element values pushed
Values == {7, 9}
\* element types: u8, u32 and a 4-byte fixed-size aggregate
ElemTypes == {[size |-> 1, fixed_reference |-> FALSE],
              [size |-> 4, fixed_reference |-> FALSE],
              [size |-> 4, fixed_reference |-> TRUE]}

\* IR values of the memory machine: scalars and pointers; a pointer is an
\* allocation (address and generation) and a byte offset into its payload
Scalar(x) == [kind |-> "val", addr |-> 0, gen |-> 0, n |-> x]
Pointer(a, g, off) == [kind |-> "ptr", addr |-> a, gen |-> g, n |-> off]
Undef == [kind |-> "undef", addr |-> 0, gen |-> 0, n |-> 0]

Free == [gen |-> 0, size |-> 0, len |-> 0, cap |-> 0, data |-> <<>>]

\* __realloc(ptr, size): the allocation moves to address to (to = its own
\* address: it is resized in place); the header and the payload are copied
\* up to the smaller of the two sizes, the old allocation is freed and the
\* result is a pointer of a new generation g
realloc(h, ptr, size, to, g, esize) ==
    LET old == h[ptr.addr]
        n == (size - VecHeaderSize) \div esize
        data == [i \in 1 .. n |-> IF i <= Len(old.data) THEN old.data[i] ELSE Undef]
        obj == [gen |-> g, size |-> size, len |-> old.len, cap |-> old.cap,
                data |-> data]
    IN [a \in Addrs |-> IF a = to THEN obj ELSE IF a = ptr.addr THEN Free ELSE h[a]]

\* an executed IR instruction; assert_failure carries its two arguments
Op(name) == [op |-> name, ptr |-> "", len |-> 0]
assert_failure(ptr, len) == [op |-> "assert_failure", ptr |-> ptr, len |-> len]

\* the elements 1 .. len of the vector at ptr
elements(h, ptr) == SubSeq(h[ptr.addr].data, 1, h[ptr.addr].len)

\* mutant of build_gep: the index is ignored, the pointer is to element 0
build_gep_first(base, index, elem_size) ==
    Pointer(base.addr, base.gen, 0)

\* build_gep(a, [0, 2, index * elem_size]): pointer to element index of the
\* vector's payload
build_gep(base, index, elem_size) ==
    Pointer(base.addr, base.gen, index * elem_size)

\* bin.vector_len(arr): load of the header's len field
vector_len(h, ptr) == h[ptr.addr].len

\* mutant of store_header: only the len field is written
store_header_len_only(h, dest, new_len) ==
    [h EXCEPT ![dest.addr].len = new_len]

\* "Update the len and size field of the vector struct": both stores
store_header(h, dest, new_len) ==
    [h EXCEPT ![dest.addr].len = new_len, ![dest.addr].cap = new_len]

\* Instr::PushMemory { res, ty, array, value }, executed on machine m with
\* the pushed value x; to is the address __realloc returns. The lengths of
\* the model are far below 2^32, where the i32 arithmetic does not wrap
lower_push_memory(m, x, to) ==
    LET arr == m.vars.array
        elem_size == m.elem_ty.size
        len == vector_len(m.heap, arr)
        new_len == len + 1
        size == elem_size * new_len + VecHeaderSize
        h1 == realloc(m.heap, arr, size, to, m.nops + 2, elem_size)
        dest == Pointer(to, m.nops + 2, 0)
        elem_ptr == build_gep(dest, len, elem_size)
        res == IF m.elem_ty.fixed_reference THEN elem_ptr ELSE Scalar(x)
        h2 == [h1 EXCEPT ![dest.addr].data[(elem_ptr.n \div elem_size) + 1] = Scalar(x)]
    IN [heap |-> store_header(h2, dest, new_len),
        vars |-> [array |-> dest, res |-> res],
        last |-> [op |-> "push", len |-> len, arr |-> arr, ret |-> dest,
                  size |-> size, old |-> elements(m.heap, arr),
                  path |-> <<Op("load_len"), Op("add"), Op("mul"), Op("add"),
                             Op("realloc"), Op("store_elem"),
                             Op("store_len"), Op("store_size")>>]]

\* mutant of pop_entry: len - 1 is computed before the emptiness test
pop_entry_hoisted ==
    <<Op("load_len"), Op("sub"), Op("icmp_eq_zero"), Op("condbr")>>

\* Instr::PopMemory, the instructions emitted ahead of the error and pop
\* blocks: the load of len, is_array_empty and the conditional branch
pop_entry ==
    <<Op("load_len"), Op("icmp_eq_zero"), Op("condbr")>>

\* Instr::PopMemory, the error block: target.assert_failure(null, 0), which
\* ends the execution; nothing of the machine changes
lower_pop_memory_error(m) ==
    [heap |-> m.heap,
     vars |-> m.vars,
     last |-> [op |-> "pop_empty", len |-> vector_len(m.heap, m.vars.array),
               arr |-> m.vars.array, ret |-> Undef, size |-> 0,
               old |-> elements(m.heap, m.vars.array),
               path |-> pop_entry \o <<assert_failure("null", 0)>>]]

\* Instr::PopMemory { res, ty, array }, the pop block: the path taken when
\* the vector is not empty
lower_pop_memory(m, to) ==
    LET a == m.vars.array
        elem_size == m.elem_ty.size
        len == vector_len(m.heap, a)
        new_len == len - 1
        size == elem_size * new_len + VecHeaderSize
        slot_ptr == build_gep(a, new_len, elem_size)
        res == IF m.elem_ty.fixed_reference THEN slot_ptr
               ELSE m.heap[a.addr].data[(slot_ptr.n \div elem_size) + 1]
        h1 == realloc(m.heap, a, size, to, m.nops + 2, elem_size)
        dest == Pointer(to, m.nops + 2, 0)
    IN [heap |-> store_header(h1, dest, new_len),
        vars |-> [array |-> dest, res |-> res],
        last |-> [op |-> "pop", len |-> len, arr |-> a, ret |-> dest,
                  size |-> size, old |-> elements(m.heap, a),
                  path |-> pop_entry
                           \o <<Op("sub"), Op("mul"), Op("add"), Op("gep_slot")>>
                           \o (IF m.elem_ty.fixed_reference THEN <<>>
                               ELSE <<Op("load_elem")>>)
                           \o <<Op("realloc"), Op("store_len"),
                                Op("store_size")>>]]

\* the machine the handlers work on
Mem == [heap |-> heap, vars |-> mvars, elem_ty |-> elem_ty, target |-> target,
        nops |-> nops]

NoOp == [op |-> "none", len |-> 0, arr |-> Undef, ret |-> Undef, size |-> 0,
         old |-> <<>>, path |-> <<>>]

\* no vector: the state of the memory machine while a CFG is lowered
MemIdle ==
    /\ target = "Substrate"
    /\ elem_ty = [size |-> 1, fixed_reference |-> FALSE]
    /\ heap = [a \in Addrs |-> Free]
    /\ mvars = [array |-> Undef, res |-> Undef]
    /\ lastop = NoOp
    /\ nops = 0

\* no CFG: the state of the block translator while the vector code runs
CfgIdle ==
    /\ cfg = <<>> /\ blocks = <<>> /\ work = <<>> /\ w = NoWork /\ pc = 1
    /\ builder = 0 /\ ir = <<>> /\ trace = <<>> /\ enqueued = <<>>
    /\ translated = <<>> /\ edges = <<>>

\* a vector of len0 elements with len <= cap at address 1, bound to array
InitMem ==
    /\ CfgIdle
    /\ OtherIdle
    /\ target \in {"Substrate", "Solana"}
    /\ elem_ty \in ElemTypes
    /\ \E len0 \in 0 .. MaxLen, cap0 \in 0 .. MaxLen + 1 :
           /\ len0 <= cap0 /\ cap0 <= len0 + 1
           /\ heap = [a \in Addrs |->
                         IF a = 1
                         THEN [gen |-> 1, size |-> VecHeaderSize + cap0 * elem_ty.size,
                               len |-> len0, cap |-> cap0,
                               data |-> [i \in 1 .. cap0 |->
                                            IF i <= len0 THEN Scalar(10 + i) ELSE Undef]]
                         ELSE Free]
    /\ mvars = [array |-> Pointer(1, 1, 0), res |-> Undef]
    /\ lastop = NoOp
    /\ nops = 0

Running == lastop.op # "pop_empty" /\ nops < MaxOps

\* where __realloc may put the vector: in place, or at the free address
ReallocTargets == {mvars.array.addr} \cup {a \in Addrs : heap[a] = Free}

DoPushMemory ==
    /\ Running
    /\ \E x \in Values, to \in ReallocTargets :
           LET m == lower_push_memory(Mem, x, to)
           IN heap' = m.heap /\ mvars' = m.vars /\ lastop' = m.last
    /\ nops' = nops + 1
    /\ UNCHANGED <<target, elem_ty>>
    /\ UNCHANGED <<cfgvars, othervars>>

\* Instr::PopMemory: the pop block when len # 0
DoPopMemory ==
    /\ Running
    /\ vector_len(heap, mvars.array) # 0
    /\ \E to \in ReallocTargets :
           LET m == lower_pop_memory(Mem, to)
           IN heap' = m.heap /\ mvars' = m.vars /\ lastop' = m.last
    /\ nops' = nops + 1
    /\ UNCHANGED <<target, elem_ty>>
    /\ UNCHANGED <<cfgvars, othervars>>

\* Instr::PopMemory: the error block when len = 0, assert_failure(null, 0)
DoPopEmpty ==
    /\ Running
    /\ vector_len(heap, mvars.array) = 0
    /\ LET m == lower_pop_memory_error(Mem)
       IN heap' = m.heap /\ mvars' = m.vars /\ lastop' = m.last
    /\ nops' = nops + 1
    /\ UNCHANGED <<target, elem_ty>>
    /\ UNCHANGED <<cfgvars, othervars>>

NextMem == DoPushMemory \/ DoPopMemory \/ DoPopEmpty

SpecMem == InitMem /\ [][NextMem]_vars

\* emit::cfg::emit_cfg, before its loop: block 0 is materialized and enqueued
\* with the parameter bindings
EmitCfgStart ==
    /\ LET s0 == [blocks |-> <<>>, work |-> <<>>, builder |-> 0, ir |-> <<>>,
                  trace |-> <<>>, enqueued |-> <<>>, edges |-> <<>>]
           c == create_block(s0, 0)
           s1 == [c EXCEPT !.blocks = (0 :> BasicBlock(Len(c.ir), 0))]
           s2 == push_back(s1, 0, NoWork.vars)
       IN /\ blocks = s2.blocks
          /\ work = s2.work
          /\ builder = s2.builder
          /\ ir = s2.ir
          /\ enqueued = s2.enqueued
          /\ edges = s2.edges
    /\ trace = <<>>
    /\ w = NoWork
    /\ pc = 1
    /\ translated = <<>>

InitCfg == cfg \in CFGs(NumBlocks) /\ EmitCfgStart

Init == InitCfg /\ MemIdle /\ OtherIdle

\* emit::cfg::emit_cfg, loop head: take the front work item, position the
\* builder at its block and bind the phi variables to the block's phis
PopWork ==
    /\ ~Active
    /\ work # <<>>
    /\ Len(translated) < MaxTranslations
    /\ LET item == Head(work)
           b == blocks[item.block_no]
       IN /\ w' = [item EXCEPT !.vars = [x \in Vars |->
                       IF x \in b.phis THEN PhiValue(b.bb, x) ELSE item.vars[x]]]
          /\ builder' = b.bb
          /\ translated' = Append(translated, item.block_no)
    /\ work' = Tail(work)
    /\ pc' = 1
    /\ trace' = <<>>
    /\ UNCHANGED <<cfg, blocks, ir, enqueued, edges>>
    /\ UNCHANGED <<memvars, othervars>>

\* Instr::Return { value } if value.is_empty()
lower_return(st, item) == build(st, "ret", <<>>, item.block_no)

\* mutant of lower_branch: the insertion point is not restored to pos
lower_branch_no_restore(st, ins, item) ==
    LET dest == ins.dest[1]
        pos == st.builder
        s1 == add_or_retrieve_block(st, dest, pos, item.vars)
        bb == s1.blocks[dest].bb
    IN build_branch(s1, "br", <<bb>>, item.block_no, item.vars)

\* Instr::Branch { block: dest }
lower_branch(st, ins, item) ==
    LET dest == ins.dest[1]
        pos == st.builder
        s1 == add_or_retrieve_block(st, dest, pos, item.vars)
        bb == s1.blocks[dest].bb
        s2 == position_at_end(s1, pos)
    IN build_branch(s2, "br", <<bb>>, item.block_no, item.vars)

\* mutant of lower_branch_cond: the predecessor registered is the IR block
\* the CFG block was materialized as, not the insertion block
lower_branch_cond_block_entry(st, ins, item) ==
    LET true_ == ins.dest[1]
        false_ == ins.dest[2]
        s0 == expression(st, item.block_no)
        pos == s0.builder
        entry == s0.blocks[item.block_no].bb
        s1 == add_or_retrieve_block(s0, true_, entry, item.vars)
        bb_true == s1.blocks[true_].bb
        s2 == add_or_retrieve_block(s1, false_, entry, item.vars)
        bb_false == s2.blocks[false_].bb
        s3 == position_at_end(s2, pos)
    IN build_branch(s3, "condbr", <<bb_true, bb_false>>, item.block_no, item.vars)

\* Instr::BranchCond { cond, true_block, false_block }
lower_branch_cond(st, ins, item) ==
    LET true_ == ins.dest[1]
        false_ == ins.dest[2]
        s0 == expression(st, item.block_no)
        pos == s0.builder
        s1 == add_or_retrieve_block(s0, true_, pos, item.vars)
        bb_true == s1.blocks[true_].bb
        s2 == add_or_retrieve_block(s1, false_, pos, item.vars)
        bb_false == s2.blocks[false_].bb
        s3 == position_at_end(s2, pos)
    IN build_branch(s3, "condbr", <<bb_true, bb_false>>, item.block_no, item.vars)

\* the cases closure of Instr::Switch: lower the case value, then
\* add_or_retrieve_block the case target, for the cases in listed order
RECURSIVE switch_cases(_, _, _, _, _)
switch_cases(st, cases, i, pos, item) ==
    IF i > Len(cases) THEN st
    ELSE LET s1 == expression(st, item.block_no)
             s2 == add_or_retrieve_block(s1, cases[i], pos, item.vars)
         IN switch_cases(s2, cases, i + 1, pos, item)

\* Instr::Switch { cond, cases, default }
lower_switch(st, ins, item) ==
    LET n == Len(ins.dest)
        cases == SubSeq(ins.dest, 1, n - 1)
        default == ins.dest[n]
        pos == st.builder
        s0 == expression(st, item.block_no)
        s1 == switch_cases(s0, cases, 1, pos, item)
        s2 == add_or_retrieve_block(s1, default, pos, item.vars)
        s3 == position_at_end(s2, pos)
        bbs == [i \in 1 .. n |-> s2.blocks[ins.dest[i]].bb]
    IN build_branch(s3, "switch", bbs, item.block_no, item.vars)

\* blocks.entry(exception).or_insert({ work.push_back(..); create_block(..) }):
\* the argument of or_insert is evaluated before the entry is looked at, so
\* the work item is pushed and the IR block created on every call; the new
\* BasicBlock is kept only when the entry is vacant
entry_or_insert(st, exception, env) ==
    LET s1 == push_back(st, exception, env)
        c == create_block(s1, exception)
    IN IF exception \in DOMAIN st.blocks
       THEN c
       ELSE [c EXCEPT !.blocks = @ @@ (exception :> BasicBlock(Len(c.ir), exception))]

\* a run of straight-line instructions at the insertion point
RECURSIVE build_all(_, _, _)
build_all(st, ops, src) ==
    IF ops = <<>> THEN st
    ELSE build_all(build(st, Head(ops), <<>>, src), Tail(ops), src)

\* Instr::AbiDecode { selector: None, .. }: the data expressions, then the
\* call of the runtime's abi_decode
lower_abi_decode_none(st, item) ==
    build(expression(st, item.block_no), "abi_decode", <<>>, item.block_no)

\* Instr::AbiDecode { selector: Some(..), exception_block, .. }, up to the
\* call of the runtime's abi_decode in block ok2
lower_abi_decode_some(st, ins, item) ==
    LET exception == ins.dest[1]
        s0 == expression(st, item.block_no)
        pos == s0.builder
        s1 == entry_or_insert(s0, exception, item.vars)
        s2 == position_at_end(s1, pos)
        exception_block == s2.blocks[exception]
        s3 == append_basic_block(build(s2, "has_selector", <<>>, item.block_no),
                                 "ok1", item.block_no)
        ok1 == Len(s3.ir)
        s4 == build_branch(s3, "condbr", <<ok1, exception_block.bb>>,
                           item.block_no, item.vars)
        s5 == build(position_at_end(s4, ok1), "correct_selector", <<>>, item.block_no)
        s6 == append_basic_block(s5, "ok2", item.block_no)
        ok2 == Len(s6.ir)
        s7 == build_branch(s6, "condbr", <<ok2, exception_block.bb>>,
                           item.block_no, item.vars)
    IN build_all(position_at_end(s7, ok2),
                 <<"sub_data_len", "gep_data", "abi_decode">>, item.block_no)

\* Instr::AbiDecode: if let Some(selector) = selector { .. }
lower_abi_decode(st, ins, item) ==
    IF ins.dest = <<>> THEN lower_abi_decode_none(st, item)
    ELSE lower_abi_decode_some(st, ins, item)

\* target.abi_decode(.., &mut returns, data, data_len, tys, ns): one value
\* per type, in the order of tys
abi_decode(bb, tys) == [i \in 1 .. Len(tys) |-> Decoded(bb, tys[i])]

\* mutant of bind_returns: the returns are taken in reverse order
RECURSIVE bind_returns_reversed(_, _, _, _)
bind_returns_reversed(env, res, returns, i) ==
    IF i > Len(returns) THEN env
    ELSE bind_returns_reversed([env EXCEPT ![res[i]] = returns[Len(returns) + 1 - i]],
                               res, returns, i + 1)

\* for (i, ret) in returns.into_iter().enumerate(): w.vars[res[i]] = ret
RECURSIVE bind_returns(_, _, _, _)
bind_returns(env, res, returns, i) ==
    IF i > Len(returns) THEN env
    ELSE bind_returns([env EXCEPT ![res[i]] = returns[i]], res, returns, i + 1)

\* Instr::Call { res: [v], call: Static { .. } } off Solana, as IR blocks:
\* the arguments, the out-pointer, the call and the comparison in the site
\* block, the return of the code in bail, the load of the result in success
lower_call_blocks(st, item) ==
    LET src == item.block_no
        s1 == build_all(expression(st, src), <<"alloca", "call", "icmp">>, src)
        s2 == append_basic_block(s1, "success", src)
        success_block == Len(s2.ir)
        s3 == append_basic_block(s2, "bail", src)
        bail_block == Len(s3.ir)
        s4 == build_branch(s3, "condbr", <<success_block, bail_block>>, src, item.vars)
        s5 == build(position_at_end(s4, bail_block), "ret", <<>>, src)
    IN build(position_at_end(s5, success_block), "load", <<>>, src)

\* Instr::PopMemory as IR blocks: the len test in the site block,
\* assert_failure in error, the pop itself in pop
lower_pop_memory_blocks(st, item) ==
    LET src == item.block_no
        s1 == build_all(st, <<"load_len", "icmp">>, src)
        s2 == append_basic_block(s1, "error", src)
        error == Len(s2.ir)
        s3 == append_basic_block(s2, "pop", src)
        pop == Len(s3.ir)
        s4 == build_branch(s3, "condbr", <<error, pop>>, src, item.vars)
        s5 == build(position_at_end(s4, error), "assert_failure", <<>>, src)
    IN build_all(position_at_end(s5, pop),
                 <<"sub", "mul", "add", "gep", "load", "realloc",
                   "store_len", "store_size">>, src)

\* ------------------------------------------------------------- the actions
DoReturn ==
    /\ Active /\ CurInstr.op = "Return"
    /\ Commit(lower_return(Cur, w))
    /\ pc' = pc + 1
    /\ UNCHANGED <<cfg, w, translated>>
    /\ UNCHANGED <<memvars, othervars>>

\* Instr::Set { res, expr }: res is bound to the lowered (constant) expr
DoSet ==
    /\ Active /\ CurInstr.op = "Set"
    /\ w' = [w EXCEPT !.vars["v"] = Const(CurInstr.dest[1])]
    /\ Commit(Cur)
    /\ pc' = pc + 1
    /\ UNCHANGED <<cfg, translated>>
    /\ UNCHANGED <<memvars, othervars>>

DoBranch ==
    /\ Active /\ CurInstr.op = "Branch"
    /\ Commit(lower_branch(Cur, CurInstr, w))
    /\ pc' = pc + 1
    /\ UNCHANGED <<cfg, w, translated>>
    /\ UNCHANGED <<memvars, othervars>>

DoBranchCond ==
    /\ Active /\ CurInstr.op = "BranchCond"
    /\ Commit(lower_branch_cond(Cur, CurInstr, w))
    /\ pc' = pc + 1
    /\ UNCHANGED <<cfg, w, translated>>
    /\ UNCHANGED <<memvars, othervars>>

DoSwitch ==
    /\ Active /\ CurInstr.op = "Switch"
    /\ Commit(lower_switch(Cur, CurInstr, w))
    /\ pc' = pc + 1
    /\ UNCHANGED <<cfg, w, translated>>
    /\ UNCHANGED <<memvars, othervars>>

\* AbiDecode: after the lowering the results are bound to the decoded values
DoAbiDecode ==
    /\ Active /\ CurInstr.op = "AbiDecode"
    /\ LET s == lower_abi_decode(Cur, CurInstr, w)
           returns == abi_decode(s.builder, CurInstr.tys)
       IN /\ Commit(s)
          /\ w' = [w EXCEPT !.vars = bind_returns(@, CurInstr.res, returns, 1)]
    /\ pc' = pc + 1
    /\ UNCHANGED <<cfg, translated>>
    /\ UNCHANGED <<memvars, othervars>>

\* Call: after the lowering the result is bound to the value loaded in the
\* success block
DoCallInBlock ==
    /\ Active /\ CurInstr.op = "Call"
    /\ LET s == lower_call_blocks(Cur, w)
       IN /\ Commit(s)
          /\ w' = [w EXCEPT !.vars["v"] = Loaded32(s.builder, "v")]
    /\ pc' = pc + 1
    /\ UNCHANGED <<cfg, translated>>
    /\ UNCHANGED <<memvars, othervars>>

\* PopMemory: the result is bound to the element, the array to the pointer
\* __realloc returned
DoPopMemoryInBlock ==
    /\ Active /\ CurInstr.op = "PopMemory"
    /\ LET s == lower_pop_memory_blocks(Cur, w)
       IN /\ Commit(s)
          /\ w' = [w EXCEPT !.vars["v"] = Popped(s.builder, "v"),
                            !.vars["c"] = Popped(s.builder, "c")]
    /\ pc' = pc + 1
    /\ UNCHANGED <<cfg, translated>>
    /\ UNCHANGED <<memvars, othervars>>

Next ==
    \/ PopWork
    \/ DoReturn
    \/ DoSet
    \/ DoBranch
    \/ DoBranchCond
    \/ DoSwitch
    \/ DoAbiDecode

Spec == Init /\ [][Next]_vars

\* the block translator on CFGs with Call, PopMemory and AbiDecode without
\* selector
InitIr == cfg \in SplitCFGs(NumBlocks) /\ EmitCfgStart /\ MemIdle /\ OtherIdle

NextIr == Next \/ DoCallInBlock \/ DoPopMemoryInBlock

SpecIr == InitIr /\ [][NextIr]_vars

\* ------------------------------------------- the internal call machine
\* a call instruction and the bindings of the variables it may write
InitCall ==
    /\ CfgIdle
    /\ MemIdle
    /\ SelIdle
    /\ ExtIdle
    /\ MoreIdle
    /\ \E r \in SeqsUpTo(ReturnTypes, MaxReturns) : call \in Calls(r)
    /\ cenv = [i \in 1 .. MaxReturns |-> Dest(call.dest[i], i)]
    /\ cir = NoCallIr
    /\ cphase = "emit"
    /\ crun = NoRun

CommitCall(l) ==
    /\ cir' = l
    /\ cenv' = l.env
    /\ cphase' = "emitted"
    /\ UNCHANGED <<call, crun>>
    /\ UNCHANGED <<cfgvars, memvars, selvars, extvars, morevars>>

DoCallStatic ==
    /\ cphase = "emit" /\ call.kind = "Static"
    /\ CommitCall(lower_call_static(call, cenv))

DoCallBuiltin ==
    /\ cphase = "emit" /\ call.kind = "Builtin"
    /\ CommitCall(lower_call_builtin(call, cenv))

DoCallDynamic ==
    /\ cphase = "emit" /\ call.kind = "Dynamic"
    /\ CommitCall(lower_call_dynamic(call, cenv))

\* the instruction that follows the call in its block is lowered at the
\* insertion point the call handler left
DoLaterInstr ==
    /\ cphase = "emitted" /\ call.later = 1
    /\ cir' = [cir EXCEPT !.blocks[cir.insert] = Append(@, CallOp("later", 0))]
    /\ cphase' = "block_done"
    /\ UNCHANGED <<call, cenv, crun>>
    /\ UNCHANGED <<cfgvars, memvars, selvars, extvars, morevars>>

\* the emitted code runs; the callee returns rc
RunCall ==
    /\ \/ cphase = "emitted" /\ call.later = 0
       \/ cphase = "block_done"
    /\ \E rc \in ReturnCodes : crun' = run_call(cir, rc)
    /\ cphase' = "ran"
    /\ UNCHANGED <<call, cenv, cir>>
    /\ UNCHANGED <<cfgvars, memvars, selvars, extvars, morevars>>

NextCall == DoCallStatic \/ DoCallBuiltin \/ DoCallDynamic \/ DoLaterInstr \/ RunCall

SpecCall == InitCall /\ [][NextCall]_vars

\* ------------------------------------------------ the selector machine
\* lengths the data_len expression may evaluate to; -1 is 0xffffffff
DataLens == {0, 3, 4, 5, 4 + MaxPayload, -1}

\* an AbiDecode with a selector on a buffer of 4 + MaxPayload bytes
InitSel ==
    /\ CfgIdle
    /\ MemIdle
    /\ CallIdle
    /\ ExtIdle
    /\ MoreIdle
    /\ sel \in [target : Targets2, selector : Words, data_len : DataLens]
    /\ buf \in {b \o [i \in 1 .. MaxPayload |-> 0] : b \in SelBytes}
    /\ wrote = NoWrite
    /\ sphase = "start"
    /\ sout = NoOutcome

\* Instr::WriteBuffer of a 4-byte value at offset 0 or 1
DoWriteBuffer ==
    /\ sphase = "start"
    /\ \E ty \in WriteTypes, value \in Words, offset \in 0 .. 1 :
           /\ offset + ty.n <= Len(buf)
           /\ buf' = lower_write_buffer(buf, offset, value, ty)
           /\ wrote' = [ty |-> ty, value |-> value, offset |-> offset]
    /\ sphase' = "written"
    /\ UNCHANGED <<sel, sout>>
    /\ UNCHANGED <<cfgvars, memvars, callvars, extvars, morevars>>

\* Instr::AbiDecode { selector: Some(..), data, data_len }: the emitted check
\* runs on the buffer
DoAbiDecodeSelector ==
    /\ sphase \in {"start", "written"}
    /\ sout' = run_abi_decode(buf, sel.data_len, sel.target, sel.selector)
    /\ sphase' = "done"
    /\ UNCHANGED <<sel, buf, wrote>>
    /\ UNCHANGED <<cfgvars, memvars, callvars, extvars, morevars>>

NextSel == DoWriteBuffer \/ DoAbiDecodeSelector

SpecSel == InitSel /\ [][NextSel]_vars

\* ------------------------------------------- the external call machine
InitExt ==
    /\ CfgIdle
    /\ MemIdle
    /\ CallIdle
    /\ SelIdle
    /\ MoreIdle
    /\ xcall \in [payload : Payloads, success : {"none", "success"}]
    /\ xseen = NothingSeen
    /\ xphase = "emit"

\* Instr::ExternalCall: the handler computes the arguments and delegates
DoExternalCall ==
    /\ xphase = "emit"
    /\ xseen' = lower_external_call(xcall)
    /\ xphase' = "called"
    /\ UNCHANGED xcall
    /\ UNCHANGED <<cfgvars, memvars, callvars, selvars, morevars>>

\* the runtime's external_call returns with an outcome
ExternalCallReturns ==
    /\ xphase = "called"
    /\ \E outcome \in {"true", "false"} : xseen' = external_call(xseen, outcome)
    /\ xphase' = "returned"
    /\ UNCHANGED xcall
    /\ UNCHANGED <<cfgvars, memvars, callvars, selvars, morevars>>

NextExt == DoExternalCall \/ ExternalCallReturns

SpecExt == InitExt /\ [][NextExt]_vars

\* ----------------------------------------------------- the Set machine
\* the environment of a block whose variables are bound to parameters
InitSet ==
    /\ CfgIdle
    /\ MemIdle
    /\ CallIdle
    /\ SelIdle
    /\ ExtIdle
    /\ SizeIdle
    /\ setins = NoSet
    /\ setenv = [x \in SetVars |-> ParamValue(x)]
    /\ nsets = 0

DoSetInstr ==
    /\ nsets < MaxSets
    /\ \E res \in SetVars, expr \in SetExprs :
           /\ setenv' = lower_set(setenv, res, expr)
           /\ setins' = [res |-> res, expr |-> expr]
    /\ nsets' = nsets + 1
    /\ UNCHANGED <<cfgvars, memvars, callvars, selvars, extvars, sizevars>>

NextSet == DoSetInstr

SpecSet == InitSet /\ [][NextSet]_vars

\* ---------------------------------------------------- the size machine
\* a vector with a len field and an element size
InitSize ==
    /\ CfgIdle
    /\ MemIdle
    /\ CallIdle
    /\ SelIdle
    /\ ExtIdle
    /\ SetIdle
    /\ sz \in [target : Targets2, len : Lens, elem_size : ElemSizes]
    /\ szout = NoSize
    /\ nsz = 0

SizeRunning == nsz < MaxSizeOps /\ szout.op # "pop_empty"

\* PushMemory: the header's len field becomes new_len
DoPushSize ==
    /\ SizeRunning
    /\ szout' = push_realloc_size(sz.target, sz.len, sz.elem_size)
    /\ sz' = [sz EXCEPT !.len = szout'.new_len]
    /\ nsz' = nsz + 1
    /\ UNCHANGED <<cfgvars, memvars, callvars, selvars, extvars, setvars>>

\* PopMemory, len # 0: the pop block
DoPopSize ==
    /\ SizeRunning
    /\ sz.len # const_int(0, I32)
    /\ szout' = pop_realloc_size(sz.target, sz.len, sz.elem_size)
    /\ sz' = [sz EXCEPT !.len = szout'.new_len]
    /\ nsz' = nsz + 1
    /\ UNCHANGED <<cfgvars, memvars, callvars, selvars, extvars, setvars>>

\* PopMemory, len = 0: the error block
DoPopSizeEmpty ==
    /\ SizeRunning
    /\ sz.len = const_int(0, I32)
    /\ szout' = pop_error_size(sz.len)
    /\ nsz' = nsz + 1
    /\ UNCHANGED sz
    /\ UNCHANGED <<cfgvars, memvars, callvars, selvars, extvars, setvars>>

NextSize == DoPushSize \/ DoPopSize \/ DoPopSizeEmpty

SpecSize == InitSize /\ [][NextSize]_vars

\* ------------------------------------------------------- derived notions
\* the driver has halted: no block in translation and the work list empty
Done == ~Active /\ work = <<>>

\* the instruction whose handler ran last (trace is its record)
LastInstr == Body(w.block_no)[pc - 1]
AfterBranching ==
    /\ trace # <<>>
    /\ LastInstr.op \in {"Branch", "BranchCond", "Switch"}

\* the IR block the builder was in when the handler started: the branch site
Site == trace[1].at

Indices(ev) == {i \in 1 .. Len(trace) : trace[i].ev = ev}
BranchIndices == {i \in 1 .. Len(trace) : trace[i].ev \in {"br", "condbr", "switch"}}

Count(s, x) == Cardinality({i \in 1 .. Len(s) : s[i] = x})

\* ------------------------------------------------------------- the claims

\* C1: while one function is lowered, every CFG block number is enqueued on
\* the work list, and translated, at most once, whatever instructions
\* (Branch, BranchCond, Switch, AbiDecode with a selector) refer to it.
C1_AtMostOnce ==
    \A b \in Blocks : Count(enqueued, b) <= 1 /\ Count(translated, b) <= 1

\* C2: the driver halts because the number of work items ever enqueued is
\* bounded by the number of CFG blocks.
C2_EnqueuedBounded == Len(enqueued) <= NumBlocks

\* C3: phi completeness. Once lowering has finished, every emitted edge
\* p -> b into a block with phis has, in each phi of b, an incoming from p
\* whose value is the variable's value in p's environment at the branch.
C3_PhiComplete ==
    Done =>
        \A i \in 1 .. Len(edges) :
            LET e == edges[i]
                phis == ir[e.to].phis
            IN \A x \in DOMAIN phis :
                   \E k \in 1 .. Len(phis[x]) :
                       phis[x][k] = [val |-> e.vars[x], pred |-> e.from]

\* C4: each phi has exactly one incoming per emitted edge into its block and
\* no others: the number of incomings equals the number of edges.
C4_OneIncomingPerEdge ==
    Done =>
        \A bb \in 1 .. Len(ir) :
            \A x \in DOMAIN ir[bb].phis :
                Len(ir[bb].phis[x])
                    = Cardinality({i \in 1 .. Len(edges) : edges[i].to = bb})

\* the entries of dest that are not in seen, first occurrences, in order
RECURSIVE FirstNew(_, _, _)
FirstNew(dest, i, seen) ==
    IF i > Len(dest) THEN <<>>
    ELSE IF dest[i] \in seen THEN FirstNew(dest, i + 1, seen)
    ELSE <<dest[i]>> \o FirstNew(dest, i + 1, seen \cup {dest[i]})

BlockNos(q) == [i \in 1 .. Len(q) |-> q[i].block_no]

\* C5: the env of a block's work item is a copy of the env of the site that
\* first reached the block; a later edge into the block enqueues nothing and
\* leaves the queued work items as they are.
C5_FirstEncounter ==
    [][ /\ \A i \in Len(enqueued) + 1 .. Len(enqueued') :
               enqueued'[i] \notin DOMAIN blocks
        /\ \A i \in Len(work) + 1 .. Len(work') : work'[i].vars = w.vars
        /\ translated' = translated => SubSeq(work', 1, Len(work)) = work
      ]_vars

\* C6: blocks are translated in first-encounter (FIFO) order. A newly
\* materialized block goes to the back of the work list and the driver takes
\* the front; BranchCond enqueues the true block before the false block and
\* Switch the case targets in listed order before the default.
C6_FIFO ==
    [][ /\ translated' # translated =>
               /\ work # <<>>
               /\ translated' = Append(translated, Head(work).block_no)
               /\ work' = Tail(work)
        /\ (Active /\ CurInstr.op \in {"Branch", "BranchCond", "Switch"}) =>
               LET new == FirstNew(CurInstr.dest, 1, DOMAIN blocks)
               IN /\ enqueued' = enqueued \o new
                  /\ BlockNos(work') = BlockNos(work) \o new
      ]_vars

\* the entry block's BranchCond materialized two distinct targets, the true
\* block having the higher number, and the driver has translated them, the
\* true block first
C6_Witness ==
    /\ Body(0)[1].op = "BranchCond"
    /\ Body(0)[1].dest[1] > Body(0)[1].dest[2]
    /\ Len(translated) >= 3
    /\ translated[2] = Body(0)[1].dest[1]
    /\ translated[3] = Body(0)[1].dest[2]

\* C7: for Branch, BranchCond and Switch each target is materialized before
\* the phi incomings of its edge are added, all incomings are added before
\* the branch instruction is emitted, and in between the insertion point is
\* restored to the branch site, so that the branch lands in the site block.
C7_Order ==
    AfterBranching =>
        LET last == Len(trace)
            dest == LastInstr.dest
        IN /\ BranchIndices = {last}
           /\ trace[last].at = Site
           /\ ir[Site].code[Len(ir[Site].code)].op = trace[last].ev
           /\ \A k \in 1 .. Len(dest) :
                  /\ dest[k] \in DOMAIN blocks
                  /\ Cardinality({i \in Indices("incoming") :
                                     trace[i].n = blocks[dest[k]].bb})
                         = Cardinality({j \in 1 .. Len(dest) : dest[j] = dest[k]})
           /\ \A i \in Indices("incoming") :
                  /\ i < last
                  /\ \A j \in Indices("append") : trace[j].n = trace[i].n => j < i
                  /\ \A j \in Indices("enqueue") :
                         blocks[trace[j].n].bb = trace[i].n => j < i
                  /\ \E p \in Indices("position") :
                         trace[p].n = Site /\ i < p /\ p < last

\* a Switch has just materialized its case target and its default target
C7_Witness ==
    /\ AfterBranching
    /\ LastInstr.op = "Switch"
    /\ Cardinality(Indices("append")) = 2
    /\ Cardinality(Indices("incoming")) = 2

\* C8 as stated: a phi incoming is registered only once the insertion point
\* is back at the branch-site block, never while it is in the new block.
C8_RegisteredAfterRestore ==
    AfterBranching => \A i \in Indices("incoming") : trace[i].at = Site

\* the block the insertion point is in before trace event i
InsertBlockAt(i) == trace[i].at

\* the IR block the handler created last before trace event i, or the site
\* block when it had created none yet
LastCreatedBefore(i) ==
    LET apps == {j \in Indices("append") : j < i}
    IN IF apps = {} THEN Site
       ELSE trace[CHOOSE j \in apps : \A k \in apps : k <= j].n

\* C8 amended: add_or_retrieve_block registers (current env value, branch
\* site block) right after materialization, before the insertion point is
\* restored: the insertion point is then in the block the instruction created
\* last, which for the edge that created its target is the new block itself.
\* The predecessor registered is the site block all the same, and the restore
\* follows every registration.
C8_RegisteredWithSite ==
    AfterBranching =>
        /\ \A i \in Indices("incoming") :
               /\ trace[i].pred = Site
               /\ InsertBlockAt(i) = LastCreatedBefore(i)
               /\ \A p \in Indices("position") : trace[p].n = Site => i < p
        /\ \A k \in 1 .. Len(LastInstr.dest) :
               LET phis == ir[blocks[LastInstr.dest[k]].bb].phis
               IN \A x \in DOMAIN phis :
                      phis[x][Len(phis[x])] = [val |-> w.vars[x], pred |-> Site]

\* a branch has just registered an incoming while the insertion point was in
\* the target it had just created
C8_Witness ==
    /\ AfterBranching
    /\ \E i \in Indices("incoming") : trace[i].at = trace[i].n /\ trace[i].at # Site

\* the vector the array variable points to
Hdr == heap[mvars.array.addr]

\* C9: vector header consistency. After every PushMemory the len and cap
\* fields of the reallocated vector both equal old len + 1, after every
\* PopMemory of a non-empty vector both equal old len - 1, and so len <= cap
\* after any sequence of the two on a vector that started with len <= cap.
C9_HeaderConsistent ==
    /\ Hdr.gen = mvars.array.gen
    /\ lastop.op = "push" => Hdr.len = lastop.len + 1 /\ Hdr.cap = lastop.len + 1
    /\ lastop.op = "pop" => Hdr.len = lastop.len - 1 /\ Hdr.cap = lastop.len - 1
    /\ Hdr.len <= Hdr.cap

\* a PopMemory after a PushMemory, on a vector __realloc has moved
C9_Witness ==
    /\ nops >= 2
    /\ lastop.op = "pop"
    /\ lastop.ret.addr # lastop.arr.addr
    /\ Hdr.len > 0

\* C10: after PushMemory or PopMemory the array variable is bound to the
\* pointer __realloc returned, and neither the array variable nor the result
\* variable holds a pointer derived from the array pointer of before the
\* __realloc.
C10_NoStalePointer ==
    lastop.op \in {"push", "pop"} =>
        /\ mvars.array = lastop.ret
        /\ \A x \in {"array", "res"} :
               mvars[x].kind = "ptr" =>
                   ~(mvars[x].addr = lastop.arr.addr /\ mvars[x].gen = lastop.arr.gen)

\* the instructions the last PushMemory or PopMemory executed
Executed == {lastop.path[i].op : i \in 1 .. Len(lastop.path)}

\* C11: PopMemory on a vector whose len is 0 takes the error block, which
\* calls assert_failure(null, 0); on that path no element is read, __realloc
\* is not called, the header is not written and len - 1 is not computed, and
\* the vector and the variables are what they were.
C11_PopEmpty ==
    [][ (nops' = nops + 1 /\ lastop'.op \in {"pop", "pop_empty"}
            /\ vector_len(heap, mvars.array) = 0) =>
            /\ lastop'.op = "pop_empty"
            /\ lastop'.path[Len(lastop'.path)] = assert_failure("null", 0)
            /\ \A i \in 1 .. Len(lastop'.path) :
                   lastop'.path[i].op \notin {"sub", "load_elem", "realloc",
                                              "store_elem", "store_len",
                                              "store_size"}
            /\ heap' = heap
            /\ mvars' = mvars
      ]_vars

\* a PopMemory has hit a vector that pushes and pops had emptied
C11_Witness ==
    /\ lastop.op = "pop_empty"
    /\ nops >= 3
    /\ "assert_failure" \in Executed

\* C12: push-then-pop round trip. A PopMemory that directly follows a
\* PushMemory of x on a vector of n elements of a non-fixed-reference type
\* yields r = x and a header with len = n, and the n elements stored before
\* the push are unchanged.
C12_RoundTrip ==
    [][ (lastop.op = "push" /\ lastop'.op = "pop" /\ nops' = nops + 1
            /\ ~elem_ty.fixed_reference) =>
            /\ mvars'.res = mvars.res
            /\ mvars'.res.kind = "val"
            /\ mvars'.res.n \in Values
            /\ heap'[mvars'.array.addr].len = lastop.len
            /\ elements(heap', mvars'.array) = lastop.old
      ]_vars

\* a vector of two elements was pushed to and popped from, and __realloc
\* moved it both times
C12_Witness ==
    /\ lastop.op = "pop"
    /\ ~elem_ty.fixed_reference
    /\ nops = 2
    /\ Len(lastop.old) = 3
    /\ Hdr.len = 2
    /\ mvars.res \in {Scalar(x) : x \in Values}
    /\ lastop.ret.addr # lastop.arr.addr

\* the instructions the run executed, and those of one emitted block
Ran == {crun.path[i].op : i \in 1 .. Len(crun.path)}
OpsOf(code) == {code[i].op : i \in 1 .. Len(code)}

\* C13: failure propagation. When the callee of an internal call (Static,
\* Builtin or Dynamic) returns a code other than Success, the function
\* returns exactly that code from the bail block, no result is loaded or
\* stored and no later instruction of the block runs; the instructions after
\* the call are in the success block only, and run when the callee succeeds.
C13_FailurePropagation ==
    cphase = "ran" =>
        /\ crun.rc # "Success" =>
               /\ crun.result = crun.rc
               /\ crun.path[Len(crun.path)] = cir.blocks.bail[Len(cir.blocks.bail)]
               /\ Ran \cap {"load", "store", "later"} = {}
        /\ crun.rc = "Success" =>
               /\ crun.result = "none"
               /\ call.later = 1 => "later" \in Ran
               /\ call.res # <<>> /\ call.returns # <<>> => "load" \in Ran
        /\ "later" \notin OpsOf(cir.blocks.site) \cup OpsOf(cir.blocks.bail)
        /\ call.later = 1 => "later" \in OpsOf(cir.blocks.success)

\* the callee of a Dynamic call that binds two results and is followed by
\* another instruction has returned a failure code
C13_Witness ==
    /\ cphase = "ran"
    /\ call.kind = "Dynamic"
    /\ crun.rc = "AbiEncodingInvalid"
    /\ crun.result = "AbiEncodingInvalid"
    /\ Len(call.res) = 2
    /\ call.later = 1

\* C19: the argument list of a Static call is the lowered args, then one
\* out-pointer alloca per return of the callee, then the accounts parameter
\* iff the target is Solana, whether or not the call site binds results.
C19_StaticArgumentList ==
    (cphase # "emit" /\ call.kind = "Static") =>
        /\ [i \in 1 .. Len(cir.parms) |-> <<cir.parms[i].kind, cir.parms[i].i>>] =
               [i \in 1 .. call.nargs |-> <<"arg", i>>]
               \o [i \in 1 .. Len(call.returns) |-> <<"alloca", i>>]
               \o (IF call.target = "Solana" THEN <<<<"accounts", 0>>>> ELSE <<>>)
        /\ Len(cir.parms) = call.nargs + Len(call.returns)
                              + (IF call.target = "Solana" THEN 1 ELSE 0)

\* the return types for which a pointer destination is stored through
NonReferenceValue(ty) == ~ty.is_reference_type /\ ~ty.external_function

\* C20: result binding after a successful internal call of any variant. For
\* return i, if the destination variable held a pointer and the return type
\* is a non-reference value type, the loaded value is stored through the
\* pointer and the binding stays; otherwise the variable is rebound to the
\* loaded value and nothing is stored.
C20_ResultBinding ==
    (cphase # "emit" /\ call.kind \in CallKinds /\ call.res # <<>>) =>
        \A i \in 1 .. Len(call.returns) :
            IF call.dest[i] = "ptr" /\ NonReferenceValue(call.returns[i])
            THEN /\ CallOp("store", i) \in {cir.blocks.success[j] :
                                               j \in 1 .. Len(cir.blocks.success)}
                 /\ cenv[call.res[i]] = Dest("ptr", i)
            ELSE /\ CallOp("store", i) \notin {cir.blocks.success[j] :
                                                  j \in 1 .. Len(cir.blocks.success)}
                 /\ cenv[call.res[i]] = Loaded(i)

\* where the selector check ended
Reached == sout.path[Len(sout.path)]

\* the four bytes a call for selector x starts with on target t: host
\* (little-endian) order on Substrate, big-endian elsewhere
ExpectedBytes(t, x) ==
    IF t = "Substrate" THEN [k \in 1 .. 4 |-> Digit(x, k - 1)]
    ELSE [k \in 1 .. 4 |-> Digit(x, 4 - k)]

\* C14: AbiDecode with a selector reaches abi_decode iff data_len > 4 as an
\* unsigned number and the first four bytes of data are the expected
\* selector; otherwise it ends in the exception block. On the success path
\* the data pointer is advanced by 4 and the length reduced by 4.
C14_SelectorCheck ==
    sphase = "done" =>
        LET long == sel.data_len \notin 0 .. 4
            matches == SubSeq(buf, 1, 4) = ExpectedBytes(sel.target, sel.selector)
        IN /\ Reached \in {"abi_decode", "exception"}
           /\ Reached = "abi_decode" <=> (long /\ matches)
           /\ Reached = "abi_decode" =>
                  sout.data = 4 /\ sout.data_len = sel.data_len - 4

\* a five-byte input that starts with the selector was passed on as one byte
C14_Witness ==
    /\ sphase = "done"
    /\ sel.data_len = 5
    /\ Reached = "abi_decode"
    /\ sout.data_len = 1
    /\ sout.data = 4

\* C15: the selector constant of the comparison is byte-swapped iff the
\* target is not Substrate; on Substrate the loaded word is compared with the
\* selector unchanged.
C15_SelectorEndianness ==
    (sphase = "done" /\ Len(sout.path) > 2) =>
        /\ sel.target = "Substrate" => sout.constant = sel.selector
        /\ sel.target # "Substrate" =>
               \A k \in 0 .. 3 : Digit(sout.constant, k) = Digit(sel.selector, 3 - k)

\* on Solana a selector that is not a palindrome was compared byte-swapped
C15_Witness ==
    /\ sphase = "done"
    /\ sel.target = "Solana"
    /\ Len(sout.path) > 2
    /\ sout.constant # sel.selector
    /\ Reached = "abi_decode"

\* C16: selector round trip. On either target, a WriteBuffer of the Bytes(4)
\* value s at offset 0 followed by an AbiDecode with selector s on the whole
\* buffer reaches the success path, not the exception block.
C16_SelectorRoundTrip ==
    (sphase = "done" /\ wrote.ty = [name |-> "Bytes", n |-> 4] /\ wrote.offset = 0
        /\ wrote.value = sel.selector /\ sel.data_len = Len(buf)) =>
        Reached = "abi_decode"

\* the bytes of the payload object the runtime reads through what it was
\* handed, and the bytes that are the payload
SeenBytes == {xseen.payload_ptr + i : i \in 0 .. xseen.payload_len - 1}
PayloadBytes == {xcall.payload.first + i : i \in 0 .. xcall.payload.len - 1}

\* C17: ExternalCall hands the runtime a pointer and a length that cover
\* exactly the payload bytes: the vector's data pointer and len field for a
\* DynamicBytes payload, the raw pointer and the static size of the buffer
\* for any other; the success variable, if any, is bound to the outcome.
C17_ExternalCallPayload ==
    xphase \in {"called", "returned"} =>
        LET p == xcall.payload
        IN /\ p.ty = "DynamicBytes" =>
                  /\ xseen.payload_ptr = p.ptr + VecHeaderSize
                  /\ xseen.payload_len = p.len
           /\ p.ty # "DynamicBytes" =>
                  /\ xseen.payload_ptr = p.ptr
                  /\ xseen.payload_len = p.size_of
           /\ SeenBytes = PayloadBytes
           /\ (xphase = "returned" /\ xcall.success # "none") =>
                  /\ xseen.outcome \in {"true", "false"}
                  /\ xseen.success = xseen.outcome
           /\ xcall.success = "none" => xseen.success = "unbound"

\* a 12-byte payload in a vector with spare room was handed over and the
\* call succeeded
C17_Witness ==
    /\ xphase = "returned"
    /\ xcall.payload.ty = "DynamicBytes"
    /\ xcall.payload.cap = 13
    /\ xseen.payload_len = 12
    /\ xseen.outcome = "true"
    /\ xseen.success = "true"

\* the blocks the instructions of block b refer to
Successors(b) ==
    UNION {{Body(b)[i].dest[k] : k \in 1 .. Len(Body(b)[i].dest)} :
              i \in {j \in 1 .. Len(Body(b)) : Body(b)[j].op # "Set"}}

\* the blocks reachable from the entry block through such references
RECURSIVE ReachableFrom(_, _)
ReachableFrom(seen, n) ==
    IF n = 0 THEN seen
    ELSE ReachableFrom(seen \cup UNION {Successors(b) : b \in seen}, n - 1)
Reachable == ReachableFrom({0}, NumBlocks)

\* C18: every block reachable from the entry block through the targets of
\* Branch, BranchCond, Switch and AbiDecode exception blocks is translated
\* exactly once by the time the driver halts, never more than once on the
\* way, and a block nothing refers to is never translated.
C18_ExactlyOnce ==
    /\ \A b \in Blocks :
           Count(translated, b) <= (IF b \in Reachable THEN 1 ELSE 0)
    /\ Done => \A b \in Reachable : Count(translated, b) = 1

\* the bindings of the result variables at the call site, before the call
SiteEnv == [i \in 1 .. MaxReturns |-> Dest(call.dest[i], i)]

\* what the Static handler emits for the call at hand
AsStatic == lower_call_static(call, SiteEnv)

\* the emitted code without the lowering of the callee expression
WithoutCallee(code) == SelectSeq(code, LAMBDA o : o.op # "callee_expr")

\* C21: a Dynamic call is lowered like the Static call with the same args,
\* returns and result variables, but for the callee expression: the same
\* argument list with the same alloca placement on each target, the same
\* success / bail split and the same result binding for every return type.
C21_DynamicLikeStatic ==
    (cphase = "emitted" /\ call.kind = "Dynamic") =>
        /\ cir.parms = AsStatic.parms
        /\ WithoutCallee(cir.blocks.site) = AsStatic.blocks.site
        /\ cir.blocks.bail = AsStatic.blocks.bail
        /\ cir.blocks.success = AsStatic.blocks.success
        /\ cir.insert = AsStatic.insert
        /\ cenv = AsStatic.env

\* C22: a Builtin call is lowered like the Static call with the same args,
\* returns and result variables: the same argument list, the accounts
\* parameter on Solana included, the same success / bail split and the same
\* result binding.
C22_BuiltinLikeStatic ==
    (cphase = "emitted" /\ call.kind = "Builtin") =>
        /\ cir.parms = AsStatic.parms
        /\ cir.blocks = AsStatic.blocks
        /\ cir.insert = AsStatic.insert
        /\ cenv = AsStatic.env

\* the block an emitted alloca is in: the function's entry block for the
\* entry-block allocator, the block of the call site for an alloca built at
\* the insertion point
AllocaBlock(parm) == IF parm.at = "entry" THEN "entry" ELSE call.site

\* C23: every stack slot the lowering of a call allocates is in the
\* function's entry block on both targets: no alloca is emitted into a block
\* that lies on a CFG loop.
C23_AllocasInEntry ==
    cphase # "emit" =>
        \A i \in 1 .. Len(cir.parms) :
            cir.parms[i].kind = "alloca" => AllocaBlock(cir.parms[i]) = "entry"

\* C24: Set { v, e } binds v to the lowered default of ty if e is
\* Undefined(ty) and ty has a default, and to the lowered e in every other
\* case, Undefined(ty) of a type without default included; no other variable
\* changes.
C24_Set ==
    [][ nsets' = nsets + 1 =>
            LET v == setins'.res
                e == setins'.expr
            IN /\ setenv'[v] =
                      IF e.e = "Undefined" /\ type_default(e.ty) # <<>>
                      THEN lower_expression(type_default(e.ty)[1], setenv)
                      ELSE lower_expression(e, setenv)
               /\ \A x \in SetVars \ {v} : setenv'[x] = setenv[x]
      ]_vars

\* header_size + n * elem_size, computed in 64 bits, where it cannot wrap
ExactSize(n, elem_size) ==
    build_int_add(build_int_z_extend(vec_size, I64),
                  build_int_mul(build_int_z_extend(elem_size, I64), n))

\* len + 1 and len - 1 as 64-bit numbers
LenPlusOne == build_int_add(build_int_z_extend(szout.len, I64), const_int(1, I64))
LenMinusOne == build_int_sub(build_int_z_extend(szout.len, I64), const_int(1, I64))

C28_EmittedInOwnBlock ==
    \A bb \in 1 .. Len(ir) :
        \A i \in 1 .. Len(ir[bb].code) : ir[bb].code[i].src = ir[bb].blk

\* the instructions that end an IR block
IsTerminator(op) == op \in {"ret", "br", "condbr", "switch", "assert_failure"}

\* C29: with every CFG block ending in a terminator, no instruction is
\* appended to an IR block after its terminator, and once the lowering is
\* done every IR block it created has exactly one terminator, its last
\* instruction.
C29_OneTerminator ==
    /\ \A bb \in 1 .. Len(ir) :
           \A i \in 1 .. Len(ir[bb].code) - 1 : ~IsTerminator(ir[bb].code[i].op)
    /\ Done =>
           \A bb \in 1 .. Len(ir) :
               /\ ir[bb].code # <<>>
               /\ IsTerminator(ir[bb].code[Len(ir[bb].code)].op)

\* the instructions appended to IR block bb by the step
Appended(bb) == SubSeq(ir'[bb].code, Len(ir[bb].code) + 1, Len(ir'[bb].code))

\* C26: AbiDecode without a selector emits no length or selector check and
\* no edge to an exception block, leaves the blocks map and the work list
\* unchanged, hands data and data_len to abi_decode unmodified, and binds
\* res[i] to the i-th decoded value in the order of tys.
C26_DecodeNoSelector ==
    [][ (Active /\ CurInstr.op = "AbiDecode" /\ CurInstr.dest = <<>>) =>
            /\ blocks' = blocks
            /\ work' = work
            /\ edges' = edges
            /\ enqueued' = enqueued
            /\ builder' = builder
            /\ Len(ir') = Len(ir)
            /\ \A bb \in 1 .. Len(ir) :
                   /\ ir'[bb].phis = ir[bb].phis
                   /\ bb # builder => ir'[bb].code = ir[bb].code
            /\ [i \in 1 .. Len(Appended(builder)) |-> Appended(builder)[i].op]
                   = <<"expr", "abi_decode">>
            /\ \A i \in 1 .. Len(CurInstr.res) :
                   w'.vars[CurInstr.res[i]] = Decoded(builder, CurInstr.tys[i])
            /\ \A x \in Vars :
                   (\A i \in 1 .. Len(CurInstr.res) : CurInstr.res[i] # x) =>
                       w'.vars[x] = w.vars[x]
      ]_vars

\* an (int16, bool) was decoded into c and v in a block with phis
C26_Witness ==
    /\ trace # <<>>
    /\ pc = 2
    /\ LastInstr = AbiDecodeNoSelector(<<"c", "v">>, <<"int16", "bool">>)
    /\ w.block_no = 1
    /\ w.vars["c"] = Decoded(builder, "int16")
    /\ w.vars["v"] = Decoded(builder, "bool")
    /\ ir[builder].code[Len(ir[builder].code)].op = "abi_decode"

\* the branch of the last handler follows an instruction that split the IR
\* block of its CFG block
AfterSplit ==
    /\ AfterBranching
    /\ pc > 2
    /\ \/ Body(w.block_no)[pc - 2].op \in {"Call", "PopMemory"}
       \/ /\ Body(w.block_no)[pc - 2].op = "AbiDecode"
          /\ Body(w.block_no)[pc - 2].dest # <<>>

\* the block the last split of CFG block b continues in: the pop, success or
\* ok2 block created last for b
Continuation(b) ==
    LET conts == {bb \in 1 .. Len(ir) :
                     ir[bb].blk = b /\ ir[bb].name \in {"pop", "success", "ok2"}}
    IN CHOOSE bb \in conts : \A other \in conts : other <= bb

BranchOps == {"br", "condbr", "switch"}

\* C27: the predecessor of every phi incoming is the IR block that holds the
\* branch: after PopMemory, a Call or AbiDecode split the IR block, the
\* branch that follows registers the continuation block (pop, success, ok2),
\* not the IR block the CFG block was materialized as.
C27_PredecessorHoldsBranch ==
    /\ \A bb \in 1 .. Len(ir) :
           \A x \in DOMAIN ir[bb].phis :
               \A k \in 1 .. Len(ir[bb].phis[x]) :
                   LET code == ir[ir[bb].phis[x][k].pred].code
                   IN \E i \in 1 .. Len(code) :
                          /\ code[i].op \in BranchOps
                          /\ \E t \in 1 .. Len(code[i].targets) :
                                 code[i].targets[t] = bb
    /\ AfterSplit =>
           LET cont == Continuation(w.block_no)
           IN /\ cont # blocks[w.block_no].bb
              /\ \A i \in Indices("incoming") : trace[i].pred = cont
              /\ ir[cont].code[Len(ir[cont].code)].op \in BranchOps
              /\ \A k \in 1 .. Len(LastInstr.dest) :
                     LET phis == ir[blocks[LastInstr.dest[k]].bb].phis
                     IN \A x \in DOMAIN phis :
                            phis[x][Len(phis[x])].pred = cont

\* a BranchCond that follows a Call has registered the Call's success block
\* with the phis of its two targets
C27_Witness ==
    /\ AfterSplit
    /\ LastInstr.op = "BranchCond"
    /\ Body(w.block_no)[pc - 2].op = "Call"
    /\ ir[Site].name = "success"
    /\ Cardinality(Indices("incoming")) = 2
    /\ \A i \in Indices("incoming") : trace[i].pred = Site
====
